---- MODULE Spec2Model ----
(***************************************************************************)
(* adc-to-zmap-nii-to-dcm (src/app.py): one run of main().                 *)
(*                                                                         *)
(* main scans the input root for *.nii.gz files (_get_nii_fileinfos),      *)
(* walks the whole tree for one representative *.dcm file per directory    *)
(* and reads its metadata (_get_dcm_fileinfos, _get_dcm_fileinfo), pairs   *)
(* the two inventories on their "prompt" keys (_nii_dcm_pairs) and calls   *)
(* the external run_nii2dcm once per matched pair.                         *)
(*                                                                         *)
(* Python strings are sequences of one-character strings, so that suffix   *)
(* tests, re.sub, basename and f-string concatenation are computed as the  *)
(* code computes them.  The file system under the input root, the DICOM    *)
(* headers in it and the working directory are the inputs, drawn in Init;  *)
(* the outcome of each run_nii2dcm call is drawn when the call is made.    *)
(***************************************************************************)
EXTENDS Integers, Sequences, FiniteSets, TLC

VARIABLES
    fs,               \* entries of the input root: the tree os.listdir/os.walk see
    cwd,              \* working directory of the process
    pc,               \* position in main: "nii", "dcm", "pair", "convert", "done", "failed"
    nii_fileinfos,    \* main: result of _get_nii_fileinfos
    dcm_fileinfos,    \* _get_dcm_fileinfos: records appended so far / its result
    walk_i,           \* _get_dcm_fileinfos: position of the os.walk generator
    dcm_fileinfo_map, \* _nii_dcm_pairs: prompt -> DICOM record
    invalid_pairs,    \* _nii_dcm_pairs: pairs whose DICOM side is None
    nii_dcm_pairs,    \* main: result of _nii_dcm_pairs (the valid pairs)
    pair_i,           \* main: position of the conversion loop
    log,              \* every library call and printed report, in program order
    error             \* the exception that ended the run ("" while none)

vars == <<fs, cwd, pc, nii_fileinfos, dcm_fileinfos, walk_i, dcm_fileinfo_map,
          invalid_pairs, nii_dcm_pairs, pair_i, log, error>>

----------------------------------------------------------------------------
(* String literals *)

SLASH == <<"/">>
USCORE == <<"_">>
NII_GZ == <<".", "n", "i", "i", ".", "g", "z">>
SS_ZMAP_NII_GZ == <<"_", "s", "s", "_", "z", "m", "a", "p">> \o NII_GZ
DOT_DCM == <<".", "d", "c", "m">>
NONE_STR == <<"N", "o", "n", "e">>

inputdir_str == <<"/", "i", "n">>
outputdir_str == <<"/", "o", "u", "t">>

----------------------------------------------------------------------------
(* Python string and path primitives *)

\* str.endswith
EndsWith(s, suffix) ==
    /\ Len(s) >= Len(suffix)
    /\ SubSeq(s, Len(s) - Len(suffix) + 1, Len(s)) = suffix

\* re.sub(r'<suffix>$', '', s) for a literal suffix: $ matches at the end of
\* the string and also just before a newline that ends the string.
ReSubSuffix(suffix, s) ==
    IF EndsWith(s, suffix)
    THEN SubSeq(s, 1, Len(s) - Len(suffix))
    ELSE IF EndsWith(s, suffix \o <<"\n">>)
         THEN SubSeq(s, 1, Len(s) - Len(suffix) - 1) \o <<"\n">>
         ELSE s

\* re.sub(r' ', '_', s)
ReSubSpace(s) == [i \in 1..Len(s) |-> IF s[i] = " " THEN "_" ELSE s[i]]

\* str.rfind('/') + 1: the position after the last slash, 0-based
RFindSlash(p) ==
    LET at == {i \in 1..Len(p) : p[i] = "/"}
    IN  IF at = {} THEN 0 ELSE CHOOSE i \in at : \A j \in at : j <= i

\* str.rstrip('/')
RECURSIVE RStripSlash(_)
RStripSlash(p) ==
    IF p # <<>> /\ p[Len(p)] = "/" THEN RStripSlash(SubSeq(p, 1, Len(p) - 1)) ELSE p

\* os.path.basename
Basename(p) == SubSeq(p, RFindSlash(p) + 1, Len(p))

\* os.path.dirname
Dirname(p) ==
    LET head == SubSeq(p, 1, RFindSlash(p))
    IN  IF head # <<>> /\ \E i \in 1..Len(head) : head[i] # "/"
        THEN RStripSlash(head)
        ELSE head

\* os.path.join(a, b)
PathJoin(a, b) ==
    IF b # <<>> /\ b[1] = "/" THEN b
    ELSE IF a = <<>> \/ a[Len(a)] = "/" THEN a \o b
    ELSE a \o SLASH \o b

\* The file a path denotes to the operating system: a relative path is
\* resolved against the working directory.
AbsPath(wd, p) == PathJoin(wd, p)

----------------------------------------------------------------------------
(* Python values and DICOM headers *)

\* A Python value that is None or a str; the outcome of reading one DICOM
\* element is such a value, or an exception ("raise").
PyNone == [kind |-> "none", value |-> <<>>]
PyStr(s) == [kind |-> "value", value |-> s]
Raise == [kind |-> "raise", value |-> <<>>]

\* f'{v}': str(None) is 'None', str of a str is the str itself
Format(v) == IF v.kind = "none" THEN NONE_STR ELSE v.value

\* What pydicom finds in a file: readable is whether dcmread parses it, the
\* other fields the outcome of reading each element's value.
Hdr(pn, sn, sd, da, ti, no) ==
    [readable |-> TRUE, ProtocolName |-> pn, SequenceName |-> sn,
     SeriesDescription |-> sd, StudyDate |-> da, StudyTime |-> ti,
     SeriesNumber |-> no]

NotDicom ==
    [readable |-> FALSE, ProtocolName |-> Raise, SequenceName |-> Raise,
     SeriesDescription |-> Raise, StudyDate |-> Raise, StudyTime |-> Raise,
     SeriesNumber |-> Raise]

----------------------------------------------------------------------------
(* The file system: a tree of entries *)

File(name, hdr) == [name |-> name, kind |-> "file", hdr |-> hdr, entries |-> <<>>]
Dir(name, entries) == [name |-> name, kind |-> "dir", hdr |-> NotDicom, entries |-> entries]

IsFile(e) == e.kind = "file"
IsDir(e) == e.kind = "dir"

\* [f(x) for x in s]
Names(s) == [i \in 1..Len(s) |-> s[i].name]

\* os.listdir(inputdir): the names of all entries, files and directories
ListDir(entries) == Names(entries)

\* os.walk(top), top-down: (root, dirs, files) of top, then of each
\* subdirectory in turn, each rooted at os.path.join(top, name). files keeps
\* the entries so that a later dcmread finds the file's content.
RECURSIVE Walk(_, _)
RECURSIVE WalkDirs(_, _)
Walk(top, entries) ==
    <<[root |-> top,
       dirs |-> Names(SelectSeq(entries, IsDir)),
       files |-> SelectSeq(entries, IsFile)]>>
    \o WalkDirs(top, SelectSeq(entries, IsDir))
WalkDirs(top, ds) ==
    IF ds = <<>> THEN <<>>
    ELSE Walk(PathJoin(top, Head(ds).name), Head(ds).entries) \o WalkDirs(top, Tail(ds))

----------------------------------------------------------------------------
(* Input universe *)

\* Longest list of subdirectories of the input root
MaxSubdirs == 2

brainA == <<"b", "r", "a", "i", "n", "A">>
UNDERSCORES4 == <<"_", "_", "_", "_">>
brainA_nii == brainA \o UNDERSCORES4 \o SS_ZMAP_NII_GZ
brainB_nii == <<"b", "r", "a", "i", "n", "B">> \o SS_ZMAP_NII_GZ
pqd_nii == <<"p", "_", "q", "_", "d", "_", "1", "_", "2", "_", "3">> \o SS_ZMAP_NII_GZ
x_nii == <<"x">> \o NII_GZ
notes_txt == <<"n", "o", "t", "e", "s", ".", "t", "x", "t">>
seriesX == <<"s", "e", "r", "i", "e", "s", "X">>
scan1_dcm == <<"s", "c", "a", "n", "1">> \o DOT_DCM
scan2_dcm == <<"s", "c", "a", "n", "2">> \o DOT_DCM

PN_VALUE == PyStr(<<"p", " ", "q">>)
SN_VALUE == PyStr(<<"s">>)
SD_VALUE == PyStr(<<"d">>)
DA_VALUE == PyStr(<<"1">>)
TI_VALUE == PyStr(<<"2">>)
NO_VALUE == PyStr(<<"3">>)

\* prompt p_q_d_1_2_3
H_full == Hdr(PN_VALUE, SN_VALUE, SD_VALUE, DA_VALUE, TI_VALUE, NO_VALUE)
\* prompt brainA____, from ProtocolName and from SequenceName
H_brainA == Hdr(PyStr(brainA), Raise, Raise, Raise, Raise, Raise)
H_brainA_seq == Hdr(Raise, PyStr(brainA), Raise, Raise, Raise, Raise)
\* prompt braina____
braina == <<"b", "r", "a", "i", "n", "a">>
H_braina == Hdr(PyStr(braina), Raise, Raise, Raise, Raise, Raise)

\* Every combination of element outcomes of one header
FullHeaders ==
    {Hdr(pn, sn, sd, da, ti, no) :
        pn \in {Raise, PyNone, PyStr(<<>>), PN_VALUE},
        sn \in {Raise, PyNone, SN_VALUE},
        sd \in {Raise, PyNone, SD_VALUE},
        da \in {Raise, DA_VALUE},
        ti \in {Raise, TI_VALUE},
        no \in {Raise, NO_VALUE}}

RootFileChoices ==
    { <<>>,
      <<File(brainA_nii, NotDicom)>>,
      <<File(brainA_nii, NotDicom), File(brainB_nii, NotDicom)>>,
      <<File(pqd_nii, NotDicom), File(notes_txt, NotDicom), File(brainB_nii, NotDicom),
        File(brainA_nii, NotDicom)>>,
      <<File(x_nii, NotDicom), File(<<"t", "o", "p">> \o DOT_DCM, H_full), File(pqd_nii, NotDicom)>> }

SubdirChoices ==
    { Dir(seriesX, <<File(scan1_dcm, H_brainA)>>),
      Dir(<<"s", "e", "r", "i", "e", "s", "Y">>, <<File(<<"r", "e", "a", "d", "m", "e", ".", "t", "x", "t">>, NotDicom), File(scan1_dcm, H_full),
                          File(scan2_dcm, H_brainA)>>),
      Dir(<<"s", "e", "r", "i", "e", "s", "Z">>, <<File(<<"s", "c", "a", "n", "9">> \o DOT_DCM, H_brainA_seq)>>),
      Dir(<<"s", "e", "r", "i", "e", "s", "W">>, <<File(<<"w">> \o DOT_DCM, H_braina)>>),
      Dir(<<"e">>, <<File(notes_txt, NotDicom)>>),
      Dir(<<"n">>, <<Dir(<<"m">>, <<File(<<"a">> \o DOT_DCM, H_full)>>), File(notes_txt, NotDicom)>>),
      Dir(<<"b">>, <<File(<<"b", "a", "d">> \o DOT_DCM, NotDicom)>>) }

\* Lists of at most MaxSubdirs subdirectories; names in one directory differ
SubdirLists ==
    {ds \in UNION {[1..k -> SubdirChoices] : k \in 0..MaxSubdirs} :
        \A i, j \in DOMAIN ds : i # j => ds[i].name # ds[j].name}

\* Trees: some files in the root, then some subdirectories
TreeFileSystems == {fl \o ds : fl \in RootFileChoices, ds \in SubdirLists}

\* One series directory whose representative has an arbitrary header
HeaderFileSystems ==
    {<<File(pqd_nii, NotDicom), File(brainB_nii, NotDicom),
       Dir(seriesX, <<File(scan1_dcm, h), File(scan2_dcm, H_full)>>)>> : h \in FullHeaders}

FileSystems == TreeFileSystems \cup HeaderFileSystems

WorkDirs == {inputdir_str, <<"/", "w">>}

----------------------------------------------------------------------------
(* The functions of app.py *)

\* One entry of log: function fn called op (a library routine, or print)
\* with args.
Ev(fn, op, args) == [fn |-> fn, op |-> op, args |-> args]

\* An except branch that leaves the initial None in place
TryValue_KeepsNone(outcome, fallback) ==
    IF outcome.kind = "raise" THEN PyNone ELSE outcome

\* The value a try block leaves: the element's value, or the except
\* branch's fallback when the read raised.
TryValue(outcome, fallback) == IF outcome.kind = "raise" THEN fallback ELSE outcome

\* What a try block does: the read, and the warning of its except branch.
TryEvents(filename, op, attr, outcome) ==
    <<Ev("_get_dcm_fileinfo", op, <<filename, attr>>)>>
    \o (IF outcome.kind = "raise"
        THEN <<Ev("_get_dcm_fileinfo", "print", <<"WARN", filename, attr>>)>>
        ELSE <<>>)

_get_nii_fileinfo(filename) ==
    [filename |-> filename,
     prompt |-> ReSubSuffix(SS_ZMAP_NII_GZ, filename),
     base_filename |-> Basename(filename)]

IsNiiGz(x) == EndsWith(x, NII_GZ)
IsDcm(x) == EndsWith(x, DOT_DCM)
IsDcmFile(e) == IsDcm(e.name)

_get_nii_fileinfos(entries) ==
    LET filenames == ListDir(entries)
        valid_filenames == SelectSeq(filenames, IsNiiGz)
    IN  [i \in 1..Len(valid_filenames) |-> _get_nii_fileinfo(valid_filenames[i])]

\* if not protocol_name: an empty string falls back as well
ProtocolNameIsFalsy(protocol_name) ==
    protocol_name = PyNone \/ protocol_name = PyStr(<<>>)

\* line 119: if protocol_name is None
ProtocolNameIsNone(protocol_name) == protocol_name = PyNone

\* valid_filenames[-1]
LastValid(valid_filenames) == valid_filenames[Len(valid_filenames)]

\* line 90: valid_filenames[0]
Representative(valid_filenames) == valid_filenames[1]

\* _get_dcm_fileinfo after dcmread returned the_dcm: the record, and the
\* reads and warnings on the way, in order.
_get_dcm_fileinfo(filename, the_dcm) ==
    LET the_base_filename == Basename(filename)
        dir_basename == Basename(Dirname(filename))
        base_filename == dir_basename \o SLASH \o the_base_filename
        protocol_name_1 == TryValue(the_dcm.ProtocolName, PyNone)
        protocol_name ==
            IF ProtocolNameIsNone(protocol_name_1)
            THEN TryValue(the_dcm.SequenceName, PyStr(<<>>))
            ELSE protocol_name_1
        description == TryValue(the_dcm.SeriesDescription, PyStr(<<>>))
        the_date == TryValue(the_dcm.StudyDate, PyStr(<<>>))
        the_time == TryValue(the_dcm.StudyTime, PyStr(<<>>))
        series_no == TryValue(the_dcm.SeriesNumber, PyStr(<<>>))
        prompt == Format(protocol_name) \o USCORE \o Format(description) \o USCORE
                  \o Format(the_date) \o USCORE \o Format(the_time) \o USCORE
                  \o Format(series_no)
    IN  [fileinfo |-> [filename |-> filename,
                       prompt |-> ReSubSpace(prompt),
                       base_filename |-> base_filename],
         events |->
             TryEvents(filename, "data_element", "ProtocolName", the_dcm.ProtocolName)
             \o (IF ProtocolNameIsNone(protocol_name_1)
                 THEN TryEvents(filename, "data_element", "SequenceName",
                                the_dcm.SequenceName)
                 ELSE <<>>)
             \o TryEvents(filename, "data_element", "SeriesDescription",
                          the_dcm.SeriesDescription)
             \o TryEvents(filename, "getitem", "StudyDate", the_dcm.StudyDate)
             \o TryEvents(filename, "getitem", "StudyTime", the_dcm.StudyTime)
             \o TryEvents(filename, "getitem", "SeriesNumber", the_dcm.SeriesNumber)
             \o <<Ev("_get_dcm_fileinfo", "print", <<"INFO", filename>>)>>]

\* A dictionary that keeps the first record under a key
RECURSIVE DictOf_FirstWins(_)
DictOf_FirstWins(infos) ==
    IF infos = <<>> THEN <<>>
    ELSE LET rest == DictOf_FirstWins(Tail(infos))
             first == Head(infos)
         IN  [p \in DOMAIN rest \cup {first.prompt} |->
                 IF p = first.prompt THEN first ELSE rest[p]]

\* {each['prompt']: each for each in dcm_fileinfos}: a later record replaces
\* an earlier one under the same key.
RECURSIVE DictOf(_)
DictOf(infos) ==
    IF infos = <<>> THEN <<>>
    ELSE LET before == DictOf(SubSeq(infos, 1, Len(infos) - 1))
             last == infos[Len(infos)]
         IN  [p \in DOMAIN before \cup {last.prompt} |->
                 IF p = last.prompt THEN last ELSE before[p]]

\* str.lower, on the capitals the names in use have
LowerChar(c) ==
    CASE c = "A" -> "a" [] c = "B" -> "b" [] c = "W" -> "w"
      [] c = "X" -> "x" [] c = "Y" -> "y" [] c = "Z" -> "z" [] OTHER -> c
Lower(x) == [i \in 1..Len(x) |-> LowerChar(x[i])]

\* A lookup that ignores case
DictGet_IgnoreCase(d, key) ==
    IF \E k \in DOMAIN d : Lower(k) = Lower(key)
    THEN <<d[CHOOSE k \in DOMAIN d : Lower(k) = Lower(key)]>>
    ELSE <<>>

\* dict.get(key, None): <<>> is None, <<v>> the value found
DictGet(d, key) == IF key \in DOMAIN d THEN <<d[key]>> ELSE <<>>

IsInvalidPair(x) == x[2] = <<>>
IsValidPair(x) == x[2] # <<>>

_nii_dcm_pairs(niis, dcms) ==
    LET the_map == DictOf(dcms)
        pairs == [i \in 1..Len(niis) |-> <<niis[i], DictGet(the_map, niis[i].prompt)>>]
        invalid == SelectSeq(pairs, IsInvalidPair)
        valid == SelectSeq(pairs, IsValidPair)
    IN  [dcm_fileinfo_map |-> the_map,
         invalid_pairs |-> invalid,
         valid_pairs |-> valid,
         events |->
             [i \in 1..Len(invalid) |->
                 Ev("_nii_dcm_pairs", "print",
                    <<"WARN", i - 1, Len(invalid), invalid[i][1].base_filename>>)]
             \o [i \in 1..Len(valid) |->
                 Ev("_nii_dcm_pairs", "print",
                    <<"INFO", i - 1, Len(invalid), valid[i][1].base_filename,
                      valid[i][2][1].base_filename>>)]]

\* An output directory named by the prompt
_get_outdir_StripsSsZmap(outputdir, nii_filename) ==
    outputdir \o SLASH \o ReSubSuffix(SS_ZMAP_NII_GZ, Basename(nii_filename))

_get_outdir(outputdir, nii_filename) ==
    LET nii_basename == Basename(nii_filename)
        nii_prefix == ReSubSuffix(NII_GZ, nii_basename)
    IN  outputdir \o SLASH \o nii_prefix

----------------------------------------------------------------------------
(* main, step by step *)

Init ==
    /\ fs \in FileSystems
    /\ cwd \in WorkDirs
    /\ pc = "nii"
    /\ nii_fileinfos = <<>>
    /\ dcm_fileinfos = <<>>
    /\ walk_i = 1
    /\ dcm_fileinfo_map = <<>>
    /\ invalid_pairs = <<>>
    /\ nii_dcm_pairs = <<>>
    /\ pair_i = 1
    /\ log = <<>>
    /\ error = ""

\* The directories os.walk(inputdir) yields, in order
WalkSeq == Walk(inputdir_str, fs)

\* main line 56: nii_fileinfos = _get_nii_fileinfos(inputdir_str)
GetNiiFileinfos ==
    /\ pc = "nii"
    /\ nii_fileinfos' = _get_nii_fileinfos(fs)
    /\ log' = Append(log, Ev("_get_nii_fileinfos", "listdir", <<inputdir_str>>))
    /\ pc' = "dcm"
    /\ UNCHANGED <<fs, cwd, dcm_fileinfos, walk_i, dcm_fileinfo_map, invalid_pairs,
                   nii_dcm_pairs, pair_i, error>>

\* _get_dcm_fileinfos, one iteration: a directory without *.dcm files
WalkContinue ==
    /\ pc = "dcm"
    /\ walk_i <= Len(WalkSeq)
    /\ LET d == WalkSeq[walk_i]
           valid_filenames == SelectSeq(d.files, IsDcmFile)
       IN  /\ valid_filenames = <<>>
           /\ log' = Append(log, Ev("_get_dcm_fileinfos", "walk", <<d.root>>))
    /\ walk_i' = walk_i + 1
    /\ UNCHANGED <<fs, cwd, pc, nii_fileinfos, dcm_fileinfos, dcm_fileinfo_map,
                   invalid_pairs, nii_dcm_pairs, pair_i, error>>

\* _get_dcm_fileinfos, one iteration: the first *.dcm file is read and its
\* record appended
WalkAppend ==
    /\ pc = "dcm"
    /\ walk_i <= Len(WalkSeq)
    /\ LET d == WalkSeq[walk_i]
           valid_filenames == SelectSeq(d.files, IsDcmFile)
       IN  /\ valid_filenames # <<>>
           /\ Representative(valid_filenames).hdr.readable
           /\ LET full_filename == d.root \o SLASH \o Representative(valid_filenames).name
                  r == _get_dcm_fileinfo(full_filename, Representative(valid_filenames).hdr)
              IN  /\ dcm_fileinfos' = Append(dcm_fileinfos, r.fileinfo)
                  /\ log' = log \o <<Ev("_get_dcm_fileinfos", "walk", <<d.root>>),
                                     Ev("_get_dcm_fileinfo", "dcmread", <<full_filename>>)>>
                                \o r.events
    /\ walk_i' = walk_i + 1
    /\ UNCHANGED <<fs, cwd, pc, nii_fileinfos, dcm_fileinfo_map, invalid_pairs,
                   nii_dcm_pairs, pair_i, error>>

\* _get_dcm_fileinfos, one iteration: dcmread raises on the first *.dcm
\* file; nothing catches it
WalkDcmreadRaises ==
    /\ pc = "dcm"
    /\ walk_i <= Len(WalkSeq)
    /\ LET d == WalkSeq[walk_i]
           valid_filenames == SelectSeq(d.files, IsDcmFile)
       IN  /\ valid_filenames # <<>>
           /\ ~Representative(valid_filenames).hdr.readable
           /\ LET full_filename == d.root \o SLASH \o Representative(valid_filenames).name
              IN  log' = log \o <<Ev("_get_dcm_fileinfos", "walk", <<d.root>>),
                                  Ev("_get_dcm_fileinfo", "dcmread", <<full_filename>>)>>
    /\ pc' = "failed"
    /\ error' = "dcmread"
    /\ UNCHANGED <<fs, cwd, nii_fileinfos, dcm_fileinfos, walk_i, dcm_fileinfo_map,
                   invalid_pairs, nii_dcm_pairs, pair_i>>

\* A return inside the loop: the list is returned after the first directory
GetDcmFileinfosReturn_InLoop ==
    /\ pc = "dcm"
    /\ walk_i > 1
    /\ log' = Append(log, Ev("_get_dcm_fileinfos", "print", <<"INFO", Len(dcm_fileinfos)>>))
    /\ pc' = "pair"
    /\ UNCHANGED <<fs, cwd, nii_fileinfos, dcm_fileinfos, walk_i, dcm_fileinfo_map,
                   invalid_pairs, nii_dcm_pairs, pair_i, error>>

\* _get_dcm_fileinfos: the walk is exhausted, the list is returned
GetDcmFileinfosReturn ==
    /\ pc = "dcm"
    /\ walk_i > Len(WalkSeq)
    /\ log' = Append(log, Ev("_get_dcm_fileinfos", "print", <<"INFO", Len(dcm_fileinfos)>>))
    /\ pc' = "pair"
    /\ UNCHANGED <<fs, cwd, nii_fileinfos, dcm_fileinfos, walk_i, dcm_fileinfo_map,
                   invalid_pairs, nii_dcm_pairs, pair_i, error>>

\* main lines 58-60: nii_dcm_pairs = _nii_dcm_pairs(...), then the summary
NiiDcmPairs ==
    /\ pc = "pair"
    /\ LET r == _nii_dcm_pairs(nii_fileinfos, dcm_fileinfos)
       IN  /\ dcm_fileinfo_map' = r.dcm_fileinfo_map
           /\ invalid_pairs' = r.invalid_pairs
           /\ nii_dcm_pairs' = r.valid_pairs
           /\ log' = log \o r.events
                         \o <<Ev("main", "print",
                                 <<Len(nii_fileinfos), Len(r.valid_pairs)>>)>>
    /\ pc' = "convert"
    /\ UNCHANGED <<fs, cwd, nii_fileinfos, dcm_fileinfos, walk_i, pair_i, error>>

\* A loop body that reads the first pair at every iteration
ConversionCall_FirstPair(pairs, i) ==
    LET nii_filename == pairs[1][1].filename
        dcm_filename == pairs[1][2][1].filename
        out_dir == _get_outdir(outputdir_str, nii_filename)
    IN  Ev("main", "run_nii2dcm", <<nii_filename, out_dir, "MR", dcm_filename>>)

\* The call main makes for the pair at position i of nii_dcm_pairs
ConversionCall(pairs, i) ==
    LET nii_filename == pairs[i][1].filename
        dcm_filename == pairs[i][2][1].filename
        out_dir == _get_outdir(outputdir_str, nii_filename)
    IN  Ev("main", "run_nii2dcm", <<nii_filename, out_dir, "MR", dcm_filename>>)

\* main lines 62-66, one iteration: run_nii2dcm returns
RunNii2dcmReturns ==
    /\ pc = "convert"
    /\ pair_i <= Len(nii_dcm_pairs)
    /\ log' = Append(log, ConversionCall(nii_dcm_pairs, pair_i))
    /\ pair_i' = pair_i + 1
    /\ UNCHANGED <<fs, cwd, pc, nii_fileinfos, dcm_fileinfos, walk_i, dcm_fileinfo_map,
                   invalid_pairs, nii_dcm_pairs, error>>

\* A loop body that catches the exception and goes on to the next pair
RunNii2dcmRaises_Caught ==
    /\ pc = "convert"
    /\ pair_i <= Len(nii_dcm_pairs)
    /\ log' = Append(log, ConversionCall(nii_dcm_pairs, pair_i))
    /\ pair_i' = pair_i + 1
    /\ error' = "run_nii2dcm"
    /\ UNCHANGED <<fs, cwd, pc, nii_fileinfos, dcm_fileinfos, walk_i, dcm_fileinfo_map,
                   invalid_pairs, nii_dcm_pairs>>

\* main lines 62-66, one iteration: run_nii2dcm raises; nothing catches it
RunNii2dcmRaises ==
    /\ pc = "convert"
    /\ pair_i <= Len(nii_dcm_pairs)
    /\ log' = Append(log, ConversionCall(nii_dcm_pairs, pair_i))
    /\ pc' = "failed"
    /\ error' = "run_nii2dcm"
    /\ UNCHANGED <<fs, cwd, nii_fileinfos, dcm_fileinfos, walk_i, dcm_fileinfo_map,
                   invalid_pairs, nii_dcm_pairs, pair_i>>

\* main: the loop is over, main returns
MainReturns ==
    /\ pc = "convert"
    /\ pair_i > Len(nii_dcm_pairs)
    /\ pc' = "done"
    /\ UNCHANGED <<fs, cwd, nii_fileinfos, dcm_fileinfos, walk_i, dcm_fileinfo_map,
                   invalid_pairs, nii_dcm_pairs, pair_i, log, error>>

Next ==
    \/ GetNiiFileinfos
    \/ WalkContinue
    \/ WalkAppend
    \/ WalkDcmreadRaises
    \/ GetDcmFileinfosReturn
    \/ NiiDcmPairs
    \/ RunNii2dcmReturns
    \/ RunNii2dcmRaises
    \/ MainReturns

Spec == Init /\ [][Next]_vars

----------------------------------------------------------------------------
(* Properties *)

IsConversionEv(e) == e.op = "run_nii2dcm"
IsDcmreadEv(e) == e.op = "dcmread"

\* The run_nii2dcm calls made so far, and the files dcmread was given
Calls == SelectSeq(log, IsConversionEv)
DcmReads == SelectSeq(log, IsDcmreadEv)

\* _get_dcm_fileinfos has returned / _nii_dcm_pairs has returned
ScanDone == pc \in {"pair", "convert", "done"} \/ error = "run_nii2dcm"
PairingDone == pc \in {"convert", "done"} \/ error = "run_nii2dcm"

\* The positions of the DICOM records whose prompt is p
DcmWithPrompt(p) == {j \in DOMAIN dcm_fileinfos : dcm_fileinfos[j].prompt = p}

SetMax(S) == CHOOSE m \in S : \A x \in S : x <= m

\* Every file of the tree as <<path, header>>, and the header at a path
AllFiles ==
    UNION {{<<WalkSeq[i].root \o SLASH \o WalkSeq[i].files[k].name,
              WalkSeq[i].files[k].hdr>> : k \in DOMAIN WalkSeq[i].files} :
           i \in DOMAIN WalkSeq}
HeaderAt(filename) == (CHOOSE x \in AllFiles : x[1] = filename)[2]

\* C1: once _nii_dcm_pairs has returned, a NIfTI record is in the matched
\* pairs exactly when some DICOM record's prompt equals its prompt (equality
\* of the character sequences), the DICOM record attached to it has that same
\* prompt, a NIfTI record with no such DICOM record is among the unmatched and
\* not among the matched, and the two lists partition the NIfTI records.
C1_MatchedIffPromptEqual ==
    PairingDone =>
        /\ \A i \in DOMAIN nii_fileinfos :
              LET n == nii_fileinfos[i]
                  matched == \E k \in DOMAIN nii_dcm_pairs : nii_dcm_pairs[k][1] = n
                  unmatched == \E k \in DOMAIN invalid_pairs : invalid_pairs[k][1] = n
              IN  /\ matched <=> DcmWithPrompt(n.prompt) # {}
                  /\ unmatched <=> DcmWithPrompt(n.prompt) = {}
        /\ \A k \in DOMAIN nii_dcm_pairs :
              /\ \E i \in DOMAIN nii_fileinfos : nii_fileinfos[i] = nii_dcm_pairs[k][1]
              /\ Len(nii_dcm_pairs[k][2]) = 1
              /\ \E j \in DOMAIN dcm_fileinfos : dcm_fileinfos[j] = nii_dcm_pairs[k][2][1]
              /\ nii_dcm_pairs[k][2][1].prompt = nii_dcm_pairs[k][1].prompt
        /\ \A k \in DOMAIN invalid_pairs :
              /\ \E i \in DOMAIN nii_fileinfos : nii_fileinfos[i] = invalid_pairs[k][1]
              /\ invalid_pairs[k][2] = <<>>
        /\ Len(nii_dcm_pairs) + Len(invalid_pairs) = Len(nii_fileinfos)

\* A run with a matched and an unmatched NIfTI record, the unmatched one
\* differing from a DICOM prompt in the case of one letter only.
C1_Witness ==
    /\ PairingDone
    /\ nii_dcm_pairs # <<>>
    /\ \E k \in DOMAIN invalid_pairs :
          /\ invalid_pairs[k][1].prompt = brainA \o UNDERSCORES4
          /\ DcmWithPrompt(braina \o UNDERSCORES4) # {}

\* C2: when several DICOM records share a prompt, the mapping holds for that
\* prompt the one latest in traversal order, and every matched NIfTI record
\* with that prompt is paired with it; the run goes on to the conversions.
C2_LastWriteWins ==
    PairingDone =>
        /\ DOMAIN dcm_fileinfo_map = {dcm_fileinfos[j].prompt : j \in DOMAIN dcm_fileinfos}
        /\ \A q \in DOMAIN dcm_fileinfo_map :
              dcm_fileinfo_map[q] = dcm_fileinfos[SetMax(DcmWithPrompt(q))]
        /\ \A k \in DOMAIN nii_dcm_pairs :
              nii_dcm_pairs[k][2] =
                  <<dcm_fileinfos[SetMax(DcmWithPrompt(nii_dcm_pairs[k][1].prompt))]>>
        /\ error \in {"", "run_nii2dcm"}

\* Two different DICOM records share the prompt of a matched NIfTI record and
\* the run has come to its end without an error.
C2_Witness ==
    /\ pc = "done"
    /\ \E k \in DOMAIN nii_dcm_pairs :
          \E i, j \in DcmWithPrompt(nii_dcm_pairs[k][1].prompt) :
              /\ i < j
              /\ dcm_fileinfos[i] # dcm_fileinfos[j]
              /\ nii_dcm_pairs[k][2][1] = dcm_fileinfos[j]

\* The segment a field leaves in the prompt: empty when its read raised,
\* else its value as the prompt renders it (spaces become underscores).
Segment(outcome) ==
    IF outcome.kind = "raise" THEN <<>> ELSE ReSubSpace(Format(outcome))

\* The protocolName field of a header: the value ProtocolName gives, else the
\* one SequenceName gives; its read has failed when neither gives one.
ProtocolField(h) ==
    IF h.ProtocolName.kind = "value" THEN h.ProtocolName ELSE h.SequenceName

\* C3: no outcome of the five field reads keeps a record from being produced:
\* every file dcmread could parse has its record, whose prompt is the five
\* segments joined by underscores, the segment of a field whose read failed
\* being empty and the others being the values read.  Only dcmread itself
\* ends the scan early.
C3_FieldFailureLeavesEmptySegment ==
    /\ Len(dcm_fileinfos) = Cardinality({k \in DOMAIN DcmReads :
                                            HeaderAt(DcmReads[k].args[1]).readable})
    /\ \A i \in DOMAIN dcm_fileinfos :
          LET h == HeaderAt(dcm_fileinfos[i].filename)
          IN  dcm_fileinfos[i].prompt =
                  Segment(ProtocolField(h)) \o USCORE \o Segment(h.SeriesDescription)
                  \o USCORE \o Segment(h.StudyDate) \o USCORE \o Segment(h.StudyTime)
                  \o USCORE \o Segment(h.SeriesNumber)
    /\ error = "dcmread" => ~HeaderAt(DcmReads[Len(DcmReads)].args[1]).readable

\* A record was produced from a header in which the reads of the protocol
\* name (both attributes) and of the date failed while the others succeeded,
\* and the scan went on to its end.
C3_Witness ==
    /\ ScanDone
    /\ \E i \in DOMAIN dcm_fileinfos :
          LET h == HeaderAt(dcm_fileinfos[i].filename)
          IN  /\ h.ProtocolName = Raise /\ h.SequenceName = Raise
              /\ h.StudyDate = Raise
              /\ h.SeriesDescription = SD_VALUE
              /\ h.StudyTime = TI_VALUE /\ h.SeriesNumber = NO_VALUE
              /\ dcm_fileinfos[i].prompt = <<"_", "d", "_", "_", "2", "_", "3">>

\* Whether SequenceName was read from the file
SequenceNameRead(filename) ==
    \E k \in DOMAIN log :
        log[k].op = "data_element" /\ log[k].args = <<filename, "SequenceName">>

\* s starts with t
StartsWith(s, t) == Len(s) >= Len(t) /\ SubSeq(s, 1, Len(t)) = t

\* C4 as stated: SequenceName is read exactly when the read of ProtocolName
\* raised, and the prompt starts with the value of ProtocolName whenever that
\* read did not raise, whatever the value, else with the value of
\* SequenceName, else with the empty segment.
C4_AsStated ==
    \A i \in DOMAIN dcm_fileinfos :
        LET f == dcm_fileinfos[i].filename
            h == HeaderAt(f)
            first == IF h.ProtocolName.kind # "raise" THEN h.ProtocolName
                     ELSE h.SequenceName
        IN  /\ SequenceNameRead(f) <=> h.ProtocolName.kind = "raise"
            /\ StartsWith(dcm_fileinfos[i].prompt, Segment(first) \o USCORE)

\* C4, amended: SequenceName is read exactly when the read of ProtocolName
\* raised or gave None; the prompt starts with the value of ProtocolName when
\* that read gave a value (an empty string included), else with the value of
\* SequenceName, and with the empty segment only when the SequenceName read
\* raised as well.
C4_FallbackOnRaiseOrNone ==
    \A i \in DOMAIN dcm_fileinfos :
        LET f == dcm_fileinfos[i].filename
            h == HeaderAt(f)
        IN  /\ SequenceNameRead(f) <=> h.ProtocolName.kind \in {"raise", "none"}
            /\ h.ProtocolName.kind = "value" =>
                  StartsWith(dcm_fileinfos[i].prompt,
                             ReSubSpace(h.ProtocolName.value) \o USCORE)
            /\ h.ProtocolName.kind # "value" /\ h.SequenceName.kind # "raise" =>
                  StartsWith(dcm_fileinfos[i].prompt,
                             ReSubSpace(Format(h.SequenceName)) \o USCORE)
            /\ h.ProtocolName.kind # "value" /\ h.SequenceName.kind = "raise" =>
                  StartsWith(dcm_fileinfos[i].prompt, USCORE)

\* A record of a header whose ProtocolName read gave None: SequenceName was
\* read and its value starts the prompt.
C4_Witness ==
    \E i \in DOMAIN dcm_fileinfos :
        LET f == dcm_fileinfos[i].filename
            h == HeaderAt(f)
        IN  /\ h.ProtocolName = PyNone
            /\ h.SequenceName = SN_VALUE
            /\ SequenceNameRead(f)
            /\ StartsWith(dcm_fileinfos[i].prompt, <<"s", "_">>)

\* The positions of the *.dcm entries of a directory os.walk yielded
DcmPositions(d) == {k \in DOMAIN d.files : EndsWith(d.files[k].name, DOT_DCM)}
HasDcm(d) == DcmPositions(d) # {}

\* The path of the first *.dcm entry of a directory that has one
FirstDcmPath(d) ==
    LET k == CHOOSE k \in DcmPositions(d) : \A j \in DcmPositions(d) : k <= j
    IN  d.root \o SLASH \o d.files[k].name

\* The directories visited so far: all of them once the walk is over
Visited ==
    IF error = "dcmread" THEN SubSeq(WalkSeq, 1, walk_i)
    ELSE IF pc = "nii" THEN <<>>
    ELSE SubSeq(WalkSeq, 1, walk_i - 1)

\* C5: the files read are, in traversal order, the first *.dcm entry of each
\* visited directory that has one, nothing else is read, and each read that
\* succeeded gave exactly one record, in the same order; so a directory
\* without a *.dcm entry gives no record and one with such entries gives one.
\* When _get_dcm_fileinfos has returned, every directory of the tree was
\* visited.
C5_OneRecordPerDcmDirectory ==
    LET qualifying == SelectSeq(Visited, HasDcm)
    IN  /\ Len(DcmReads) = Len(qualifying)
        /\ \A k \in DOMAIN qualifying : DcmReads[k].args = <<FirstDcmPath(qualifying[k])>>
        /\ Len(dcm_fileinfos) = IF error = "dcmread" THEN Len(qualifying) - 1
                                ELSE Len(qualifying)
        /\ \A k \in DOMAIN dcm_fileinfos :
              dcm_fileinfos[k].filename = FirstDcmPath(qualifying[k])
        /\ ScanDone => Visited = WalkSeq

\* The scan is over; a directory without *.dcm entries was passed over, and
\* a directory whose first *.dcm entry is neither its first entry nor its
\* only *.dcm entry gave one record, after another directory's record.
C5_Witness ==
    /\ ScanDone
    /\ Len(dcm_fileinfos) = 2
    /\ \E i \in DOMAIN WalkSeq : ~HasDcm(WalkSeq[i]) /\ WalkSeq[i].files # <<>>
    /\ \E i \in DOMAIN WalkSeq :
          /\ Cardinality(DcmPositions(WalkSeq[i])) = 2
          /\ 1 \notin DcmPositions(WalkSeq[i])
          /\ dcm_fileinfos[2].filename = FirstDcmPath(WalkSeq[i])

\* The scenario of C6: the input root holds one NIfTI file named by a prompt
\* and _ss_zmap.nii.gz, and the directory seriesX holding scan1.dcm, whose
\* metadata gives that prompt.  A prompt read from metadata always has the
\* four underscores that join its fields, so the prompt is brainA____.
ScenarioOnePair ==
    fs = <<File(brainA_nii, NotDicom), Dir(seriesX, <<File(scan1_dcm, H_brainA)>>)>>

ScenarioReference == inputdir_str \o SLASH \o seriesX \o SLASH \o scan1_dcm

\* C6 as stated: in the scenario there is one matched pair and the one call
\* made has the output directory named by the prompt, under the output root,
\* and the reference file seriesX/scan1.dcm.
C6_AsStated ==
    ScenarioOnePair /\ (pc = "done" \/ error = "run_nii2dcm") =>
        /\ Len(nii_dcm_pairs) = 1
        /\ Len(Calls) = 1
        /\ Calls[1].args[2] = outputdir_str \o SLASH \o brainA \o UNDERSCORES4
        /\ Calls[1].args[4] = ScenarioReference

\* C6, amended: in the scenario there is one matched pair and the one call
\* made has the output directory named by the file's base name less .nii.gz,
\* so still ending in _ss_zmap, under the output root, and the reference file
\* seriesX/scan1.dcm under the input root.
C6_ScenarioOutdirKeepsSsZmap ==
    ScenarioOnePair /\ (pc = "done" \/ error = "run_nii2dcm") =>
        /\ Len(nii_dcm_pairs) = 1
        /\ nii_dcm_pairs[1][1].prompt = nii_dcm_pairs[1][2][1].prompt
        /\ Len(Calls) = 1
        /\ Calls[1].args[2] = outputdir_str \o SLASH \o brainA \o UNDERSCORES4
                              \o <<"_", "s", "s", "_", "z", "m", "a", "p">>
        /\ Calls[1].args[4] = ScenarioReference

\* The scenario has run to its end, with its one call made.
C6_Witness ==
    /\ ScenarioOnePair
    /\ pc = "done"
    /\ Len(Calls) = 1
    /\ dcm_fileinfos[1].prompt = brainA \o UNDERSCORES4

\* The phase an entry of log belongs to: the scans, the pairing with its
\* reports and the summary, the conversions.
Phase(e) ==
    IF e.op = "run_nii2dcm" THEN 3
    ELSE IF e.fn \in {"_nii_dcm_pairs", "main"} THEN 2
    ELSE 1

\* C7: the calls and reports of a run come phase by phase, never one of an
\* earlier phase after one of a later phase; nothing of the pairing exists
\* before both scans are complete, that is the root was listed and every
\* directory of the tree visited and its metadata read; no conversion call is
\* made before the pairing and its reports are complete; and the inventories
\* and pairs then are the ones the conversions run on.
C7_PhasesInOrder ==
    /\ \A i, j \in DOMAIN log : i < j => Phase(log[i]) <= Phase(log[j])
    /\ pc \in {"nii", "dcm"} \/ error = "dcmread" =>
          /\ \A i \in DOMAIN log : Phase(log[i]) = 1
          /\ nii_dcm_pairs = <<>> /\ invalid_pairs = <<>> /\ dcm_fileinfo_map = <<>>
    /\ pc = "pair" => \A i \in DOMAIN log : Phase(log[i]) = 1
    /\ pc = "pair" \/ PairingDone =>
          /\ log[1] = Ev("_get_nii_fileinfos", "listdir", <<inputdir_str>>)
          /\ Len(nii_fileinfos) = Cardinality({k \in DOMAIN fs : EndsWith(fs[k].name, NII_GZ)})
          /\ walk_i = Len(WalkSeq) + 1
          /\ Len(dcm_fileinfos) = Cardinality({k \in DOMAIN WalkSeq : HasDcm(WalkSeq[k])})
          /\ Len(DcmReads) = Len(dcm_fileinfos)
    /\ PairingDone =>
          /\ Len(nii_dcm_pairs) + Len(invalid_pairs) = Len(nii_fileinfos)
          /\ Cardinality({i \in DOMAIN log : Phase(log[i]) = 2}) = Len(nii_fileinfos) + 1
    /\ Calls # <<>> => PairingDone

\* A run with all three phases: two directories read, a matched and an
\* unmatched file reported, and a conversion call made.
C7_Witness ==
    /\ Len(dcm_fileinfos) = 2
    /\ invalid_pairs # <<>>
    /\ nii_dcm_pairs # <<>>
    /\ Calls # <<>>

\* C8: when main has returned, so no conversion call failed, the calls are
\* one per matched pair, in the order of the pairs, each for the pair's
\* NIfTI file and DICOM file with modality "MR"; none is for an unmatched
\* NIfTI file.
C8_OneCallPerMatchedPair ==
    pc = "done" =>
        /\ Len(Calls) = Len(nii_dcm_pairs)
        /\ \A k \in DOMAIN Calls :
              /\ Calls[k].args[1] = nii_dcm_pairs[k][1].filename
              /\ Calls[k].args[3] = "MR"
              /\ Calls[k].args[4] = nii_dcm_pairs[k][2][1].filename
        /\ \A k \in DOMAIN Calls : \A u \in DOMAIN invalid_pairs :
              Calls[k].args[1] # invalid_pairs[u][1].filename

\* main returned after two conversions, with an unmatched file left aside.
C8_Witness ==
    /\ pc = "done"
    /\ Len(Calls) = 2
    /\ Calls[1] # Calls[2]
    /\ invalid_pairs # <<>>

\* C9: once a conversion call has failed the run is in its failed state, the
\* calls made are those of the pairs up to the failing one, each once and in
\* order, and nothing happens any more: no later pair is converted.
C9_ConversionFailureIsFatal ==
    /\ [](error = "run_nii2dcm" =>
            /\ pc = "failed"
            /\ pair_i <= Len(nii_dcm_pairs)
            /\ Len(Calls) = pair_i
            /\ \A k \in DOMAIN Calls :
                  /\ Calls[k].args[1] = nii_dcm_pairs[k][1].filename
                  /\ Calls[k].args[4] = nii_dcm_pairs[k][2][1].filename)
    /\ [][pc # "failed"]_vars

\* The first of two conversions failed: the second pair was never converted.
C9_Witness ==
    /\ error = "run_nii2dcm"
    /\ pc = "failed"
    /\ Len(nii_dcm_pairs) = 2
    /\ Len(Calls) = 1

\* C10: the path of every NIfTI record, and so the source volume of every
\* conversion call, denotes the entry of the input root it was found as,
\* whatever the working directory.
C10_NiiPathDenotesFileInRoot ==
    /\ \A i \in DOMAIN nii_fileinfos :
          \E k \in DOMAIN fs :
              /\ EndsWith(fs[k].name, NII_GZ)
              /\ AbsPath(cwd, nii_fileinfos[i].filename) = PathJoin(inputdir_str, fs[k].name)
    /\ \A c \in DOMAIN Calls :
          \E k \in DOMAIN fs :
              AbsPath(cwd, Calls[c].args[1]) = PathJoin(inputdir_str, fs[k].name)

====
